---- MODULE Spec2Model ----
(***************************************************************************)
(* Verification model of the criminal_analysis pipeline:                   *)
(*   src/src/preprocess.py   raw exports  -> tidy CSV files                *)
(*   src/src/make_tables.py  tidy files   -> summary tables H1..H4         *)
(*   src/src/visualize.py    tidy files   -> figures 01..06                *)
(*                                                                         *)
(* Text is modelled as a sequence of characters.  The Korean labels of the *)
(* source are written syllable by syllable in Revised Romanization, one    *)
(* sequence element per Hangul syllable, so that startswith, regex search  *)
(* and equality act on the same units as in the source:                    *)
(*   beom-joe-dae-bun-ryu / beom-joe-jung-bun-ryu : the two id columns     *)
(*   hap-gye "total", so-gye "subtotal"                                    *)
(*   jeon-gwa "prior conviction", jeon-gwa-eops-eum "no prior conviction"  *)
(*   mi-sang "unknown", gi-ta "other", bul-chwi-hak "no schooling"         *)
(*   dae-hak "university", dae-hak-won "graduate school",                  *)
(*   jeon-mun-dae "junior college", go-deung-hak-gyo "high school",        *)
(*   jung-hak-gyo "middle school", cho-deung-hak-gyo "elementary school"   *)
(***************************************************************************)
EXTENDS Integers, Sequences, FiniteSets, TLC

VARIABLES
    df,           \* preprocess: the wide table read_csv returned
    long,         \* preprocess: the tidy table a clean_police_* call returned
    sheet,        \* preprocess: the rows of the first sheet of the xlsx file
    enara,        \* preprocess: outcome of clean_enara_3yr_excel / main's last step
    kosis_prior,  \* the KOSIS tidy table both consumers read
    comp,         \* visualize: fig_prior_conviction_share's comp frame
    h1,           \* make_tables: the H1 frame
    edu,          \* the education tidy table both consumers read
    h3,           \* make_tables: the H3 frame
    total,        \* visualize: fig_education_bucket_share's total frame
    files,        \* names of the files that exist on disk
    pc,           \* position of each of the three scripts
    fresh         \* scripts whose current run started after preprocess.main completed

vars == <<df, long, sheet, enara, kosis_prior, comp, h1, edu, h3, total, files, pc, fresh>>

(***************************************************************************)
(* Common helpers                                                          *)
(***************************************************************************)
Range(s) == {s[i] : i \in 1..Len(s)}

SeqsUpTo(S, n) == UNION {[1..k -> S] : k \in 0..n}

RECURSIVE Flatten(_)
Flatten(ss) == IF ss = <<>> THEN <<>> ELSE Head(ss) \o Flatten(Tail(ss))

\* A path: DATA_PROCESSED / name, OUTPUTS / name, OUTPUTS / "figures" / name
File(dir, name) == [dir |-> dir, name |-> name]

\* str.startswith(prefix)
StartsWith(x, prefix) ==
    /\ Len(prefix) <= Len(x)
    /\ SubSeq(x, 1, Len(prefix)) = prefix

\* `needle in x` for str, and re.search of a literal
Contains(x, needle) ==
    \E i \in 1..(Len(x) - Len(needle) + 1) : SubSeq(x, i, i + Len(needle) - 1) = needle

(***************************************************************************)
(* preprocess.py: clean_police_education, clean_police_prior_record        *)
(***************************************************************************)
MaxRows == 2

beom_joe_dae_bun_ryu == <<"beom", "joe", "dae", "bun", "ryu">>
beom_joe_jung_bun_ryu == <<"beom", "joe", "jung", "bun", "ryu">>

id_cols == <<beom_joe_dae_bun_ryu, beom_joe_jung_bun_ryu>>

\* Texts a cell of the CSV file can hold; <<>> is an empty (missing) cell.
CellTexts ==
    { <<>>, <<"-">>, <<"1", "2">>, <<"2", ".", "7">>, <<"-", "1", ".", "5">> }

MajorTexts == { <<"gang", "ryeok">> }
MinorTexts == { <<"sal", "in">>, <<"gang", "do">> }

\* Headers of the wide file: the two id columns and the value columns around them.
Headers ==
    { id_cols,
      id_cols \o << <<"dae", "hak">> >>,
      << <<"mi", "sang">> >> \o id_cols \o << <<"dae", "hak">> >> }

RowsOf(columns) ==
    { r \in [1..Len(columns) -> CellTexts \cup MajorTexts \cup MinorTexts] :
        \A i \in 1..Len(columns) :
            r[i] \in (CASE columns[i] = beom_joe_dae_bun_ryu  -> MajorTexts
                        [] columns[i] = beom_joe_jung_bun_ryu -> MinorTexts
                        [] OTHER -> CellTexts) }

ColIndex(columns, c) == CHOOSE i \in 1..Len(columns) : columns[i] = c

Digits == {"0", "1", "2", "3", "4", "5", "6", "7", "8", "9"}

DigitVal(ch) ==
    CASE ch = "0" -> 0 [] ch = "1" -> 1 [] ch = "2" -> 2 [] ch = "3" -> 3 [] ch = "4" -> 4
      [] ch = "5" -> 5 [] ch = "6" -> 6 [] ch = "7" -> 7 [] ch = "8" -> 8 [] ch = "9" -> 9

RECURSIVE DecVal(_)
DecVal(ds) == IF ds = <<>> THEN 0 ELSE 10 * DecVal(SubSeq(ds, 1, Len(ds) - 1)) + DigitVal(ds[Len(ds)])

\* The number a cell text denotes, as sign, integer part and fraction digits;
\* ok is FALSE for NaN (an empty cell, or a text that is no number).
NaN == [ok |-> FALSE, neg |-> FALSE, int |-> 0, frac |-> <<>>]

to_numeric(text) ==
    LET neg  == text # <<>> /\ Head(text) = "-"
        body == IF neg THEN Tail(text) ELSE text
        dots == {i \in 1..Len(body) : body[i] = "."}
        dot  == IF dots = {} THEN Len(body) + 1 ELSE CHOOSE i \in dots : TRUE
        ip   == SubSeq(body, 1, dot - 1)
        fp   == SubSeq(body, dot + 1, Len(body))
    IN  IF /\ Cardinality(dots) <= 1
           /\ Len(ip) + Len(fp) > 0
           /\ Range(ip) \cup Range(fp) \subseteq Digits
        THEN [ok |-> TRUE, neg |-> neg, int |-> DecVal(ip), frac |-> fp]
        ELSE NaN

fillna0(x) == IF x.ok THEN x ELSE [ok |-> TRUE, neg |-> FALSE, int |-> 0, frac |-> <<>>]

\* astype(int) truncates toward zero.
astype_int(x) == IF x.neg THEN 0 - x.int ELSE x.int

\* df.melt(id_vars, value_vars, ...): column by column, the rows in order.
melt(t, value_cols) ==
    Flatten([j \in 1..Len(value_cols) |->
        [i \in 1..Len(t.data) |->
            [ crime_major |-> t.data[i][ColIndex(t.columns, id_cols[1])],
              crime_minor |-> t.data[i][ColIndex(t.columns, id_cols[2])],
              variable    |-> value_cols[j],
              value       |-> t.data[i][ColIndex(t.columns, value_cols[j])] ]]])

value_cols_of(t) == SelectSeq(t.columns, LAMBDA c : c \notin Range(id_cols))

count_column_dropna(m) ==
    LET kept == SelectSeq(m, LAMBDA r : to_numeric(r.value).ok)
    IN  [k \in 1..Len(kept) |->
            [ crime_major |-> kept[k].crime_major,
              crime_minor |-> kept[k].crime_minor,
              variable    |-> kept[k].variable,
              count       |-> astype_int(to_numeric(kept[k].value)) ]]

\* Lines 73 and 85: pd.to_numeric(long["count"], errors="coerce").fillna(0).astype(int)
count_column(m) ==
    [k \in 1..Len(m) |->
        [ crime_major |-> m[k].crime_major,
          crime_minor |-> m[k].crime_minor,
          variable    |-> m[k].variable,
          count       |-> astype_int(fillna0(to_numeric(m[k].value))) ]]

clean_police_education(t) ==
    LET m == count_column(melt(t, value_cols_of(t)))
    IN  [k \in 1..Len(m) |->
            [ crime_major |-> m[k].crime_major,
              crime_minor |-> m[k].crime_minor,
              education   |-> m[k].variable,
              count       |-> m[k].count ]]

clean_police_prior_record(t) ==
    LET m == count_column(melt(t, value_cols_of(t)))
    IN  [k \in 1..Len(m) |->
            [ crime_major  |-> m[k].crime_major,
              crime_minor  |-> m[k].crime_minor,
              prior_record |-> m[k].variable,
              count        |-> m[k].count ]]

\* The two calls of preprocess.main on the police files (lines 143-147).
NoLong == [fn |-> "", out |-> <<>>]

CleanPoliceEducation ==
    /\ long = NoLong
    /\ long' = [fn |-> "clean_police_education", out |-> clean_police_education(df)]
    /\ UNCHANGED <<df, sheet, enara, kosis_prior, comp, h1, edu, h3, total, files, pc, fresh>>

CleanPolicePriorRecord ==
    /\ long = NoLong
    /\ long' = [fn |-> "clean_police_prior_record", out |-> clean_police_prior_record(df)]
    /\ UNCHANGED <<df, sheet, enara, kosis_prior, comp, h1, edu, h3, total, files, pc, fresh>>

(***************************************************************************)
(* preprocess.py: clean_enara_3yr_excel and the last step of main          *)
(***************************************************************************)
MaxSheetRows == 3

\* Texts of a sheet cell as str(x) gives them; <<>> is an empty cell (NaN).
\* "yul" is a metric label, "chul-cheo" the source note under the table,
\* "2019~2020" holds both years in one cell.
SheetTexts ==
    { <<>>,
      <<"y", "u", "l">>,
      <<"chul", "cheo">>,
      <<"2", "0", "1", "9">>,
      <<"2", "0", "2", "0">>,
      <<"2", "0", "1", "9", "~", "2", "0", "2", "0">> }

SheetRows == SheetTexts \X SheetTexts

Sheets(n) == SeqsUpTo(SheetRows, n)

e_nara_tidy == "e_nara_3yr_reimprisonment_tidy.csv"

\* pd.read_excel(path) with its default header=0: the first row of the sheet
\* becomes the column labels, the rows after it are the rows of the frame.
read_excel(sh) ==
    IF sh = <<>>
    THEN [columns |-> <<>>, rows |-> <<>>]
    ELSE [columns |-> Head(sh), rows |-> Tail(sh)]

\* " ".join([str(x) for x in row.values if pd.notna(x)])
RECURSIVE join(_)
join(cells) ==
    IF cells = <<>> THEN <<>>
    ELSE IF Tail(cells) = <<>> THEN Head(cells)
    ELSE Head(cells) \o <<" ">> \o join(Tail(cells))

joined(row) == join(SelectSeq(row, LAMBDA x : x # <<>>))

is_year_header(row) ==
    /\ Contains(joined(row), <<"2", "0", "1", "9">>)
    /\ Contains(joined(row), <<"2", "0", "2", "0">>)

\* The loop of lines 107-112: position in raw of the first row that holds both
\* years, 0 for header_row = None.
find_header_row(raw) ==
    LET hits == {i \in 1..Len(raw.rows) : is_year_header(raw.rows[i])}
    IN  IF hits = {} THEN 0 ELSE CHOOSE i \in hits : \A j \in hits : i <= j

metric == <<"m", "e", "t", "r", "i", "c">>
chul_cheo == <<"chul", "cheo">>

\* Lines 119-131 on the frame of the rows after the header: the rows whose
\* first cell is present and is no source note, melted over the labelled
\* columns after the first, the values parsed without their commas, and the
\* rows without a number dropped.
enara_long(header, data) ==
    LET rows == SelectSeq(data, LAMBDA r : r[1] # <<>> /\ ~Contains(r[1], chul_cheo))
        cols == SelectSeq([j \in 1..Len(header) |-> j], LAMBDA j :
                    j > 1 /\ header[j] # metric /\ header[j] # <<>>)
        all  == Flatten([c \in 1..Len(cols) |->
                    [i \in 1..Len(rows) |->
                        [ metric |-> rows[i][1],
                          year   |-> header[cols[c]],
                          value  |-> to_numeric(SelectSeq(rows[i][cols[c]],
                                                          LAMBDA ch : ch # ",")) ]]])
    IN  SelectSeq(all, LAMBDA r : r.value.ok)

\* ValueError of line 114; else the header and the rows after it (lines
\* 116-118) and the tidy table made of them.  A header whose first label occurs
\* again makes df["metric"] a frame, which has no .str (line 121).
clean_enara_3yr_excel(sh) ==
    LET raw        == read_excel(sh)
        header_row == find_header_row(raw)
        header     == raw.rows[header_row]
        data       == SubSeq(raw.rows, header_row + 1, Len(raw.rows))
    IN  IF header_row = 0
        THEN [raised |-> "ValueError", header |-> <<>>, data |-> <<>>, long |-> <<>>]
        ELSE IF \E j \in 2..Len(header) : header[j] = header[1]
        THEN [raised |-> "AttributeError", header |-> header, data |-> data, long |-> <<>>]
        ELSE [raised |-> "", header |-> header, data |-> data,
              long |-> enara_long(header, data)]

NoEnara == [called |-> FALSE, raised |-> "", header |-> <<>>, data |-> <<>>, long |-> <<>>]

called(r) ==
    [called |-> TRUE, raised |-> r.raised, header |-> r.header, data |-> r.data,
     long |-> r.long]

\* main, lines 152-153, when clean_enara_3yr_excel raises: the exception leaves
\* main before to_csv.
EnaraRaises ==
    /\ ~enara.called
    /\ clean_enara_3yr_excel(sheet).raised # ""
    /\ enara' = called(clean_enara_3yr_excel(sheet))
    /\ UNCHANGED <<df, long, sheet, kosis_prior, comp, h1, edu, h3, total, files, pc, fresh>>

\* main, lines 152-153, when it returns: the tidy table is written.
EnaraReturns ==
    /\ ~enara.called
    /\ clean_enara_3yr_excel(sheet).raised = ""
    /\ enara' = called(clean_enara_3yr_excel(sheet))
    /\ files' = files \cup {File("DATA_PROCESSED", e_nara_tidy)}
    /\ UNCHANGED <<df, long, sheet, kosis_prior, comp, h1, edu, h3, total, pc, fresh>>

(***************************************************************************)
(* The KOSIS tidy table and its two consumers:                             *)
(*   visualize.py   fig_prior_conviction_share  (Figure 4)                 *)
(*   make_tables.py main, the H1 block                                     *)
(***************************************************************************)
MaxKosisRows == 3

hap_gye == <<"hap", "gye">>
so_gye == <<"so", "gye">>
jeon_gwa == <<"jeon", "gwa">>
jeon_gwa_eops_eum == <<"jeon", "gwa", "eops", "eum">>
mi_sang == <<"mi", "sang">>

\* Years of the file, in sorted order.
Years == << <<"2", "0", "2", "3">> >>

KosisCounts == {0, 3}

OverallRows(group, details) ==
    [ year : Range(Years), crime_lvl1 : {hap_gye}, crime_lvl2 : {so_gye}, crime_lvl3 : {so_gye},
      group : {group}, detail : details, count : KosisCounts ]

\* Rows of kosis_prior_convictions_2023_tidy.csv: the overall-total rows, with
\* a subtotal for each group and per-count details ("1 beom", "2 beom") for
\* prior convictions, and a row of one crime category.
KosisRows ==
    OverallRows(jeon_gwa_eops_eum, {so_gye})
    \cup OverallRows(mi_sang, {so_gye})
    \cup OverallRows(jeon_gwa, {so_gye, <<"1", "beom">>, <<"2", "beom">>})
    \cup
    [ year : Range(Years), crime_lvl1 : {<<"gang", "ryeok">>}, crime_lvl2 : {so_gye},
      crime_lvl3 : {so_gye}, group : {jeon_gwa}, detail : {so_gye}, count : {3} ]

KosisTables(n) == SeqsUpTo(KosisRows, n)

RECURSIVE sum_count(_)
sum_count(rows) == IF rows = <<>> THEN 0 ELSE Head(rows).count + sum_count(Tail(rows))

\* The boolean mask of visualize.py line 130 and make_tables.py line 19.
overall_total(t) ==
    SelectSeq(t, LAMBDA r :
        r.crime_lvl1 = hap_gye /\ r.crime_lvl2 = so_gye /\ r.crime_lvl3 = so_gye)

\* A float quotient num / den, kept exact; den = 0 is the NaN or inf of pandas.
quot(num, den) == [num |-> num, den |-> den]

prior_both(base) == sum_count(SelectSeq(base, LAMBDA r : r.group = jeon_gwa))

\* Lines 134-139: the subtotal when it is positive, else the per-count rows.
prior_count(base) ==
    LET prior_total ==
            sum_count(SelectSeq(base, LAMBDA r : r.group = jeon_gwa /\ r.detail = so_gye))
    IN  IF prior_total > 0
        THEN prior_total
        ELSE sum_count(SelectSeq(base, LAMBDA r : r.group = jeon_gwa /\ r.detail # so_gye))

\* Line 147: 100 * comp["count"] / comp["count"].sum()
share_pct(count, counts) == quot(100 * count, counts[1] + counts[2] + counts[3])

fig_prior_conviction_share(t) ==
    LET base     == overall_total(t)
        no_prior == sum_count(SelectSeq(base, LAMBDA r :
                        r.group = jeon_gwa_eops_eum /\ r.detail = so_gye))
        prior    == prior_count(base)
        unknown  == sum_count(SelectSeq(base, LAMBDA r :
                        r.group = mi_sang /\ r.detail = so_gye))
        counts   == <<no_prior, prior, unknown>>
        category == << jeon_gwa_eops_eum,
                       <<"jeon", "gwa", "(", "1", "hoe", " ", "i", "sang", ")">>,
                       mi_sang >>
    IN  [i \in 1..3 |->
            [category |-> category[i], count |-> counts[i],
             share_pct |-> share_pct(counts[i], counts)]]

\* make_tables.py lines 19-23: groupby(["year", "group"]) of the overall-total
\* rows of the two groups, summed, the rows in key order, then the share of
\* the year's sum.
make_tables_h1(t) ==
    LET tot  == overall_total(t)
        sel  == SelectSeq(tot, LAMBDA r : r.group \in {jeon_gwa_eops_eum, jeon_gwa})
        keys == Flatten([y \in 1..Len(Years) |->
                    << [year |-> Years[y], group |-> jeon_gwa],
                       [year |-> Years[y], group |-> jeon_gwa_eops_eum] >>])
        seen == SelectSeq(keys, LAMBDA k :
                    \E i \in 1..Len(sel) : sel[i].year = k.year /\ sel[i].group = k.group)
        cnt(k) == sum_count(SelectSeq(sel, LAMBDA r : r.year = k.year /\ r.group = k.group))
        denom(y) == sum_count(SelectSeq(sel, LAMBDA r : r.year = y))
    IN  [i \in 1..Len(seen) |->
            [year |-> seen[i].year, group |-> seen[i].group, count |-> cnt(seen[i]),
             share |-> quot(cnt(seen[i]), denom(seen[i].year))]]

NoFrame == [done |-> FALSE, rows |-> <<>>]

\* visualize.main line 222
FigPriorConvictionShare ==
    /\ ~comp.done
    /\ comp' = [done |-> TRUE, rows |-> fig_prior_conviction_share(kosis_prior)]
    /\ UNCHANGED <<df, long, sheet, enara, kosis_prior, h1, edu, h3, total, files, pc, fresh>>

\* make_tables.main lines 17-24
MakeTablesH1 ==
    /\ ~h1.done
    /\ h1' = [done |-> TRUE, rows |-> make_tables_h1(kosis_prior)]
    /\ UNCHANGED <<df, long, sheet, enara, kosis_prior, comp, edu, h3, total, files, pc, fresh>>

(***************************************************************************)
(* The education tidy table and its two consumers:                         *)
(*   make_tables.py main, the H3 block                                     *)
(*   visualize.py   fig_education_bucket_share  (Figure 5)                 *)
(***************************************************************************)
MaxEduRows == 2

dae_hak == <<"dae", "hak">>
dae_hak_won == <<"dae", "hak", "won">>
jeon_mun_dae == <<"jeon", "mun", "dae">>
go_deung_hak_gyo == <<"go", "deung", "hak", "gyo">>
jung_hak_gyo == <<"jung", "hak", "gyo">>
cho_deung_hak_gyo == <<"cho", "deung", "hak", "gyo">>
bul_chwi_hak == <<"bul", "chwi", "hak">>
gi_ta == <<"gi", "ta">>

\* Column names of the police education file, which become the education
\* labels: the school levels, junior college, other, unknown and the total (gye).
EduLabels ==
    { dae_hak, dae_hak_won, jeon_mun_dae, go_deung_hak_gyo, jung_hak_gyo,
      cho_deung_hak_gyo, bul_chwi_hak, gi_ta, mi_sang, <<"gye">> }

EduRows ==
    [ crime_major : MajorTexts, crime_minor : {<<"sal", "in">>},
      education : EduLabels, count : {1, 2} ]

EduTables(n) == SeqsUpTo(EduRows, n)

\* Bucket names of H3, in sorted order.
dae_hak_i_sang == <<"dae", "hak", "i", "sang">>
go_jol_i_ha == <<"go", "jol", "i", "ha">>
gi_ta_mi_sang == <<"gi", "ta", "/", "mi", "sang">>
h3_buckets == <<go_jol_i_ha, gi_ta_mi_sang, dae_hak_i_sang>>

\* Bucket names of Figure 5 (written with a space), in sorted order.
dae_hak__i_sang == <<"dae", "hak", " ", "i", "sang">>
go_jol__i_ha == <<"go", "jol", " ", "i", "ha">>
mi_sang_gi_ta == <<"mi", "sang", "/", "gi", "ta">>
fig5_buckets == <<go_jol__i_ha, dae_hak__i_sang, mi_sang_gi_ta>>

\* make_tables.py lines 28-33
edu_bucket(x) ==
    IF StartsWith(x, dae_hak) \/ StartsWith(x, dae_hak_won)
    THEN dae_hak_i_sang
    ELSE IF \/ StartsWith(x, go_deung_hak_gyo)
            \/ StartsWith(x, jung_hak_gyo)
            \/ StartsWith(x, cho_deung_hak_gyo)
            \/ x = bul_chwi_hak
    THEN go_jol_i_ha
    ELSE gi_ta_mi_sang

\* visualize.py lines 162-168
bucket(x) ==
    IF Contains(x, dae_hak_won) \/ Contains(x, dae_hak) \/ Contains(x, jeon_mun_dae)
    THEN dae_hak__i_sang
    ELSE IF x \in {mi_sang, gi_ta}
    THEN mi_sang_gi_ta
    ELSE go_jol__i_ha

\* make_tables.py lines 34-36: groupby(["bucket"], as_index=False)["count"].sum(),
\* one row for each bucket that occurs, in key order, and the share of the sum.
make_tables_h3(t) ==
    LET seen == SelectSeq(h3_buckets, LAMBDA b :
                    \E i \in 1..Len(t) : edu_bucket(t[i].education) = b)
        cnt(b) == sum_count(SelectSeq(t, LAMBDA r : edu_bucket(r.education) = b))
    IN  [i \in 1..Len(seen) |->
            [bucket |-> seen[i], count |-> cnt(seen[i]),
             share |-> quot(cnt(seen[i]), sum_count(t))]]

\* visualize.py lines 170-173: the same grouping with bucket, and the share in
\* per cent.
fig_education_bucket_share(t) ==
    LET seen == SelectSeq(fig5_buckets, LAMBDA b :
                    \E i \in 1..Len(t) : bucket(t[i].education) = b)
        cnt(b) == sum_count(SelectSeq(t, LAMBDA r : bucket(r.education) = b))
    IN  [i \in 1..Len(seen) |->
            [bucket |-> seen[i], count |-> cnt(seen[i]),
             share_pct |-> quot(100 * cnt(seen[i]), sum_count(t))]]

\* a.share_pct >= b.share_pct for two rows of one frame (equal denominators).
share_ge(a, b) == a.share_pct.num >= b.share_pct.num

\* Line 174, sort_values("share_pct", ascending=False): the orders of the rows
\* by falling share; the default sort leaves the order of equal shares open.
sorted_desc(rows) ==
    { s \in [1..Len(rows) -> Range(rows)] :
        /\ Range(s) = Range(rows)
        /\ \A i \in 1..(Len(s) - 1) : share_ge(s[i], s[i + 1]) }

\* make_tables.main lines 27-37
MakeTablesH3 ==
    /\ ~h3.done
    /\ h3' = [done |-> TRUE, rows |-> make_tables_h3(edu)]
    /\ UNCHANGED <<df, long, sheet, enara, kosis_prior, comp, h1, edu, total, files, pc, fresh>>

\* visualize.main line 223
FigEducationBucketShare ==
    /\ ~total.done
    /\ \E s \in sorted_desc(fig_education_bucket_share(edu)) :
            total' = [done |-> TRUE, rows |-> s]
    /\ UNCHANGED <<df, long, sheet, enara, kosis_prior, comp, h1, edu, h3, files, pc, fresh>>

(***************************************************************************)
(* The three scripts and the files they read and write                     *)
(***************************************************************************)
Scripts == {"preprocess", "make_tables", "visualize"}

\* preprocess.main lines 137-153, in order.
preprocess_writes_world_untidy ==
    << File("DATA_PROCESSED", "prosecution_reoffend_period_type_2017_tidy.csv"),
       File("DATA_PROCESSED", "kosis_prior_convictions_2023_tidy.csv"),
       File("DATA_PROCESSED", "police_education_2020_tidy.csv"),
       File("DATA_PROCESSED", "police_prior_record_2020_tidy.csv"),
       File("DATA_PROCESSED", "world_recidivism_rates.csv"),
       File("DATA_PROCESSED", e_nara_tidy) >>

preprocess_writes ==
    << File("DATA_PROCESSED", "prosecution_reoffend_period_type_2017_tidy.csv"),
       File("DATA_PROCESSED", "kosis_prior_convictions_2023_tidy.csv"),
       File("DATA_PROCESSED", "police_education_2020_tidy.csv"),
       File("DATA_PROCESSED", "police_prior_record_2020_tidy.csv"),
       File("DATA_PROCESSED", "world_recidivism_rates_tidy.csv"),
       File("DATA_PROCESSED", e_nara_tidy) >>

\* make_tables.main: the read_csv calls (lines 9, 17, 27, 40, 45) and the to_csv
\* call that follows each (lines 14, 24, 37, 42, 47).
make_tables_reads ==
    << File("DATA_PROCESSED", "prosecution_reoffend_period_type_2017_tidy.csv"),
       File("DATA_PROCESSED", "kosis_prior_convictions_2023_tidy.csv"),
       File("DATA_PROCESSED", "police_education_2020_tidy.csv"),
       File("DATA_PROCESSED", "world_recidivism_rates_tidy.csv"),
       File("DATA_PROCESSED", e_nara_tidy) >>

make_tables_writes ==
    << File("OUTPUTS", "H2_period_distribution.csv"),
       File("OUTPUTS", "H1_prior_share_2023.csv"),
       File("OUTPUTS", "H3_education_bucket_share_2020.csv"),
       File("OUTPUTS", "H4_country_1y_5y.csv"),
       File("OUTPUTS", "domestic_3yr_reimprisonment_rate.csv") >>

\* visualize.load_processed: the read_csv calls in the order of the dict.
load_processed_reads ==
    << File("DATA_PROCESSED", "prosecution_reoffend_period_type_2017_tidy.csv"),
       File("DATA_PROCESSED", "kosis_prior_convictions_2023_tidy.csv"),
       File("DATA_PROCESSED", "police_education_2020_tidy.csv"),
       File("DATA_PROCESSED", "world_recidivism_rates_tidy.csv"),
       File("DATA_PROCESSED", e_nara_tidy) >>

\* visualize.main lines 219-224: the figures, in order.
visualize_writes ==
    << File("OUTPUTS/figures", "01_domestic_3yr_reimprisonment_trend.png"),
       File("OUTPUTS/figures", "02_reoffend_time_distribution.png"),
       File("OUTPUTS/figures", "03_top_crimes_reoffenders.png"),
       File("OUTPUTS/figures", "04_prior_conviction_share_2023.png"),
       File("OUTPUTS/figures", "05_education_bucket_share_2020.png"),
       File("OUTPUTS/figures", "06_world_recidivism_followup_lines.png") >>

NoFile == File("", "")

Idle == [state |-> "idle", at |-> 0, missing |-> NoFile]
Running(k) == [state |-> "running", at |-> k, missing |-> NoFile]
Done == [state |-> "done", at |-> 0, missing |-> NoFile]
Raised(k) == [state |-> "failed", at |-> k, missing |-> NoFile]
FileNotFound(k, f) == [state |-> "failed", at |-> k, missing |-> f]

\* python -m src.preprocess, the first time or again after a run that raised.
PreprocessStart ==
    /\ pc["preprocess"].state \in {"idle", "failed"}
    /\ pc' = [pc EXCEPT !["preprocess"] = Running(1)]
    /\ UNCHANGED <<df, long, sheet, enara, kosis_prior, comp, h1, edu, h3, total, files, fresh>>

\* One clean_* call and its to_csv; the call raises on a raw file that is
\* missing or has not the expected layout, and main ends there.
PreprocessStep ==
    /\ pc["preprocess"].state = "running"
    /\ LET k == pc["preprocess"].at
       IN  \E cleaned \in BOOLEAN :
            IF cleaned
            THEN /\ files' = files \cup {preprocess_writes[k]}
                 /\ pc' = [pc EXCEPT !["preprocess"] =
                              IF k = Len(preprocess_writes) THEN Done ELSE Running(k + 1)]
            ELSE /\ files' = files
                 /\ pc' = [pc EXCEPT !["preprocess"] = Raised(k)]
    /\ UNCHANGED <<df, long, sheet, enara, kosis_prior, comp, h1, edu, h3, total, fresh>>

\* A script of the two consumers is started (again); the run is fresh when
\* preprocess.main has completed before.
ConsumerStart(s) ==
    /\ pc[s].state # "running"
    /\ pc' = [pc EXCEPT ![s] = Running(1)]
    /\ fresh' = IF pc["preprocess"] = Done THEN fresh \cup {s} ELSE fresh \ {s}
    /\ UNCHANGED <<df, long, sheet, enara, kosis_prior, comp, h1, edu, h3, total, files>>

MakeTablesStart == ConsumerStart("make_tables")

\* make_tables.main: one read_csv and the to_csv of the table made from it.
MakeTablesStep ==
    /\ pc["make_tables"].state = "running"
    /\ LET k == pc["make_tables"].at
       IN  IF make_tables_reads[k] \in files
           THEN /\ files' = files \cup {make_tables_writes[k]}
                /\ pc' = [pc EXCEPT !["make_tables"] =
                             IF k = Len(make_tables_reads) THEN Done ELSE Running(k + 1)]
           ELSE /\ files' = files
                /\ pc' = [pc EXCEPT !["make_tables"] = FileNotFound(k, make_tables_reads[k])]
    /\ UNCHANGED <<df, long, sheet, enara, kosis_prior, comp, h1, edu, h3, total, fresh>>

VisualizeStart == ConsumerStart("visualize")

\* visualize.main line 217: one read_csv of load_processed.
VisualizeLoad ==
    /\ pc["visualize"].state = "running"
    /\ pc["visualize"].at <= Len(load_processed_reads)
    /\ LET k == pc["visualize"].at
       IN  pc' = [pc EXCEPT !["visualize"] =
                     IF load_processed_reads[k] \in files
                     THEN Running(k + 1)
                     ELSE FileNotFound(k, load_processed_reads[k])]
    /\ UNCHANGED <<df, long, sheet, enara, kosis_prior, comp, h1, edu, h3, total, files, fresh>>

\* visualize.main lines 219-224: one fig_* call, which saves its figure.
VisualizeFigure ==
    /\ pc["visualize"].state = "running"
    /\ pc["visualize"].at > Len(load_processed_reads)
    /\ LET k == pc["visualize"].at - Len(load_processed_reads)
       IN  /\ files' = files \cup {visualize_writes[k]}
           /\ pc' = [pc EXCEPT !["visualize"] =
                        IF k = Len(visualize_writes)
                        THEN Done
                        ELSE Running(pc["visualize"].at + 1)]
    /\ UNCHANGED <<df, long, sheet, enara, kosis_prior, comp, h1, edu, h3, total, fresh>>

(***************************************************************************)
(* Specifications                                                          *)
(***************************************************************************)
NoTable == [columns |-> id_cols, data |-> <<>>]

\* The three scripts on an empty output tree.
Init ==
    /\ df = NoTable /\ long = NoLong
    /\ sheet = <<>> /\ enara = NoEnara
    /\ kosis_prior = <<>> /\ comp = NoFrame /\ h1 = NoFrame
    /\ edu = <<>> /\ h3 = NoFrame /\ total = NoFrame
    /\ files = {} /\ pc = [s \in Scripts |-> Idle] /\ fresh = {}

Next ==
    \/ PreprocessStart
    \/ PreprocessStep
    \/ MakeTablesStart
    \/ MakeTablesStep
    \/ VisualizeStart
    \/ VisualizeLoad
    \/ VisualizeFigure

Spec == Init /\ [][Next]_vars

\* clean_police_education / clean_police_prior_record on every wide table.
InitReshape ==
    /\ \E h \in Headers : \E n \in 0..MaxRows : \E d \in [1..n -> RowsOf(h)] :
            df = [columns |-> h, data |-> d]
    /\ long = NoLong
    /\ sheet = <<>> /\ enara = NoEnara
    /\ kosis_prior = <<>> /\ comp = NoFrame /\ h1 = NoFrame
    /\ edu = <<>> /\ h3 = NoFrame /\ total = NoFrame
    /\ files = {} /\ pc = [s \in Scripts |-> Idle] /\ fresh = {}

NextReshape == CleanPoliceEducation \/ CleanPolicePriorRecord

SpecReshape == InitReshape /\ [][NextReshape]_vars

\* The last step of preprocess.main on every sheet.
InitEnara ==
    /\ df = NoTable /\ long = NoLong
    /\ sheet \in Sheets(MaxSheetRows) /\ enara = NoEnara
    /\ kosis_prior = <<>> /\ comp = NoFrame /\ h1 = NoFrame
    /\ edu = <<>> /\ h3 = NoFrame /\ total = NoFrame
    /\ files = {} /\ pc = [s \in Scripts |-> Idle] /\ fresh = {}

NextEnara == EnaraRaises \/ EnaraReturns

SpecEnara == InitEnara /\ [][NextEnara]_vars

\* Figure 4 and H1 on every KOSIS tidy table.
InitPrior ==
    /\ df = NoTable /\ long = NoLong
    /\ sheet = <<>> /\ enara = NoEnara
    /\ kosis_prior \in KosisTables(MaxKosisRows) /\ comp = NoFrame /\ h1 = NoFrame
    /\ edu = <<>> /\ h3 = NoFrame /\ total = NoFrame
    /\ files = {} /\ pc = [s \in Scripts |-> Idle] /\ fresh = {}

NextPrior == FigPriorConvictionShare \/ MakeTablesH1

SpecPrior == InitPrior /\ [][NextPrior]_vars

\* H3 and Figure 5 on every education tidy table.
InitEdu ==
    /\ df = NoTable /\ long = NoLong
    /\ sheet = <<>> /\ enara = NoEnara
    /\ kosis_prior = <<>> /\ comp = NoFrame /\ h1 = NoFrame
    /\ edu \in EduTables(MaxEduRows) /\ h3 = NoFrame /\ total = NoFrame
    /\ files = {} /\ pc = [s \in Scripts |-> Idle] /\ fresh = {}

NextEdu == MakeTablesH3 \/ FigEducationBucketShare

SpecEdu == InitEdu /\ [][NextEdu]_vars

(***************************************************************************)
(* Claims                                                                  *)
(***************************************************************************)

\* The integer each cell text of CellTexts stands for, written out by hand:
\* empty and "-" are not numbers, "12" is 12, "2.7" is 2, "-1.5" is -1.
ExpectedCount(text) ==
    CASE text = <<>> -> 0
      [] text = <<"-">> -> 0
      [] text = <<"1", "2">> -> 12
      [] text = <<"2", ".", "7">> -> 2
      [] text = <<"-", "1", ".", "5">> -> 0 - 1

\* The name of the value column a row of the result carries.
LabelOf(row) ==
    IF long.fn = "clean_police_education" THEN row.education ELSE row.prior_record

\* C1: the result of clean_police_education / clean_police_prior_record has
\* exactly one row for each pair (input row i, value column j), none more: with
\* R input rows and V value columns it has R * V rows, and the row of the pair
\* (i, j) carries row i's two id values, column j's name, and as count the
\* integer of the cell (i, j), 0 for a cell that is missing or not numeric.
C1_WideToLong ==
    long.fn # "" =>
        LET V == SelectSeq(df.columns, LAMBDA c :
                     c # beom_joe_dae_bun_ryu /\ c # beom_joe_jung_bun_ryu)
            R == Len(df.data)
        IN  /\ Len(long.out) = R * Len(V)
            /\ \A i \in 1..R : \A j \in 1..Len(V) :
                 LET o == long.out[(j - 1) * R + i]
                 IN  /\ DOMAIN o = {"crime_major", "crime_minor", "count",
                                    IF long.fn = "clean_police_education"
                                    THEN "education" ELSE "prior_record"}
                     /\ o.crime_major = df.data[i][ColIndex(df.columns, beom_joe_dae_bun_ryu)]
                     /\ o.crime_minor = df.data[i][ColIndex(df.columns, beom_joe_jung_bun_ryu)]
                     /\ LabelOf(o) = V[j]
                     /\ o.count = ExpectedCount(df.data[i][ColIndex(df.columns, V[j])])

\* C1 witness: a table of two rows and two value columns with a missing cell
\* and a negative fraction has been reshaped into four rows.
C1_Witness ==
    /\ long.fn = "clean_police_education"
    /\ Len(df.columns) = 4 /\ Len(df.data) = 2 /\ Len(long.out) = 4
    /\ \E i \in 1..2 : df.data[i][1] = <<>>
    /\ \E k \in 1..4 : long.out[k].count = 0 - 1
    /\ \E k \in 1..4 : long.out[k].count = 12

\* C2: every file make_tables.main and load_processed read is written by
\* preprocess.main, neither consumer reads a file the other writes, and a run of
\* a consumer started after preprocess.main completed never reads a file that
\* does not exist.
C2_PipelineOrdering ==
    /\ Range(make_tables_reads) \subseteq Range(preprocess_writes)
    /\ Range(load_processed_reads) \subseteq Range(preprocess_writes)
    /\ Range(make_tables_reads) \cap Range(visualize_writes) = {}
    /\ Range(load_processed_reads) \cap Range(make_tables_writes) = {}
    /\ \A s \in fresh : pc[s].missing = NoFile

\* C2 witness: both consumers ran to the end after preprocess.main completed.
C2_Witness ==
    /\ pc["preprocess"] = Done
    /\ fresh = {"make_tables", "visualize"}
    /\ pc["make_tables"] = Done
    /\ pc["visualize"] = Done

\* C3, as claimed: the header is the first row of the sheet that holds both
\* years and the data are the rows after it; with no such row in the sheet the
\* call raises ValueError and the tidy file is not written.
C3_FirstSheetRowIsHeader ==
    enara.called =>
        LET hits == {k \in 1..Len(sheet) : is_year_header(sheet[k])}
        IN  IF hits = {}
            THEN enara.raised = "ValueError" /\ File("DATA_PROCESSED", e_nara_tidy) \notin files
            ELSE LET k == CHOOSE h \in hits : \A g \in hits : h <= g
                 IN  /\ enara.raised # "ValueError"
                     /\ enara.header = sheet[k]
                     /\ enara.data = SubSeq(sheet, k + 1, Len(sheet))

\* The sum of the counts of the overall-total rows of group g whose detail is
\* the subtotal (sub) or is not (~sub).
RECURSIVE TotalOf(_, _, _)
TotalOf(t, g, sub) ==
    IF t = <<>> THEN 0
    ELSE (IF /\ Head(t).crime_lvl1 = hap_gye
             /\ Head(t).crime_lvl2 = so_gye
             /\ Head(t).crime_lvl3 = so_gye
             /\ Head(t).group = g
             /\ (Head(t).detail = so_gye) = sub
          THEN Head(t).count ELSE 0) + TotalOf(Tail(t), g, sub)

\* C4: the count of Figure 4 for prior convictions is the sum of the subtotal
\* rows when that is positive and else the sum of the other rows, not both
\* added up, and each share is 100 * count over the sum of the three counts.
C4_PriorCountedOnce ==
    comp.done =>
        LET sub == TotalOf(kosis_prior, jeon_gwa, TRUE)
            oth == TotalOf(kosis_prior, jeon_gwa, FALSE)
            all == comp.rows[1].count + comp.rows[2].count + comp.rows[3].count
        IN  /\ comp.rows[2].count = IF sub > 0 THEN sub ELSE oth
            /\ (sub > 0 /\ oth > 0) => comp.rows[2].count # sub + oth
            /\ \A i \in 1..3 :
                 /\ comp.rows[i].share_pct.num = 100 * comp.rows[i].count
                 /\ comp.rows[i].share_pct.den = all

\* C4 witness: Figure 4 was computed from a table that holds a positive
\* subtotal row and a positive per-count row of prior convictions.
C4_Witness ==
    /\ comp.done
    /\ TotalOf(kosis_prior, jeon_gwa, TRUE) = 3
    /\ TotalOf(kosis_prior, jeon_gwa, FALSE) = 3
    /\ comp.rows[1].count = 3
    /\ comp.rows[2].share_pct = quot(300, 6)

\* C5, as claimed: the counts H1 holds for the groups with and without prior
\* convictions are the counts Figure 4 uses for them.
C5_H1EqualsFigure4 ==
    (comp.done /\ h1.done) =>
        \A i \in 1..Len(h1.rows) :
            /\ h1.rows[i].group = jeon_gwa => h1.rows[i].count = comp.rows[2].count
            /\ h1.rows[i].group = jeon_gwa_eops_eum => h1.rows[i].count = comp.rows[1].count

\* The count a frame holds for bucket b, 0 when the bucket has no row.
BucketCount(rows, b) ==
    IF \E i \in 1..Len(rows) : rows[i].bucket = b
    THEN (CHOOSE r \in Range(rows) : r.bucket = b).count
    ELSE 0

\* The Figure 5 bucket that corresponds to an H3 bucket.
Corresponding(b) ==
    CASE b = dae_hak_i_sang -> dae_hak__i_sang
      [] b = go_jol_i_ha -> go_jol__i_ha
      [] b = gi_ta_mi_sang -> mi_sang_gi_ta

\* C6, as claimed: edu_bucket and bucket put every label of the table in
\* corresponding buckets, and the H3 counts are the Figure 5 counts.
C6_BucketingsAgree ==
    (h3.done /\ total.done) =>
        /\ \A i \in 1..Len(edu) :
             Corresponding(edu_bucket(edu[i].education)) = bucket(edu[i].education)
        /\ \A i \in 1..3 :
             BucketCount(h3.rows, h3_buckets[i])
                = BucketCount(total.rows, Corresponding(h3_buckets[i]))

====
